---- MODULE Spec2Model ----
(***************************************************************************)
(* Model of the GLB -> STL conversion of the magicfish web application:    *)
(* convertGlbToStl (lib/stl-utils) and its caller, the STLConverter        *)
(* component (components/stl-converter.tsx).                               *)
(*                                                                         *)
(* Every STLConverter component instance c drives at most one conversion   *)
(* at a time.  A conversion is a promise whose executor starts an          *)
(* asynchronous load; the onLoad / onError callbacks of the load run to    *)
(* completion on the single JavaScript thread (variable "running").        *)
(*                                                                         *)
(* Numbers: vertex coordinates are small integers (exact in float32).      *)
(* Roughness and metalness are kept in tenths (0.3 -> 3, 0.1 -> 1).        *)
(***************************************************************************)
EXTENDS Integers, Sequences, FiniteSets, TLC

\* ------------------------------------------------------------------------
\* Bounds of the model
\* ------------------------------------------------------------------------
NumConv == 2

Conv == 1..NumConv

\* Generations a user starts in one run of the ModelGenerator component.
MaxSubmits == 2

\* The attempts counter and the poll count of a polling chain are followed
\* up to this value; a larger count is kept as this value.
MaxAttempts == 2

\* ------------------------------------------------------------------------
\* Vectors
\* ------------------------------------------------------------------------
Vec(x, y, z) == <<x, y, z>>

Abs(x) == IF x < 0 THEN -x ELSE x

SubVectors(a, b) == <<a[1] - b[1], a[2] - b[2], a[3] - b[3]>>

Cross(a, b) ==
    <<a[2] * b[3] - a[3] * b[2],
      a[3] * b[1] - a[1] * b[3],
      a[1] * b[2] - a[2] * b[1]>>

\* Vector3.normalize(): divideScalar(length() || 1).  The catalogue below
\* only yields axis-aligned or zero vectors here, whose length is the sum of
\* the absolute components.
NormalizeVec(v) ==
    LET len == Abs(v[1]) + Abs(v[2]) + Abs(v[3])
        d == IF len = 0 THEN 1 ELSE len
    IN <<v[1] \div d, v[2] \div d, v[3] \div d>>

\* A world matrix restricted to scale and translation: p -> s * p + t.
IdentityMatrix == [s |-> <<1, 1, 1>>, t |-> <<0, 0, 0>>]

ApplyMatrix4(v, m) ==
    <<m.s[1] * v[1] + m.t[1], m.s[2] * v[2] + m.t[2], m.s[3] * v[3] + m.t[3]>>

\* Matrix4.multiplyMatrices(a, b): the matrix that applies b, then a.
MultiplyMatrices(a, b) ==
    [s |-> <<a.s[1] * b.s[1], a.s[2] * b.s[2], a.s[3] * b.s[3]>>,
     t |-> ApplyMatrix4(b.t, a)]

\* ------------------------------------------------------------------------
\* Materials
\* ------------------------------------------------------------------------
White == 16777215      \* 0xffffff

NullMaterial ==
    [type |-> "null", color |-> 0, roughness |-> 0, metalness |-> 0, map |-> "null"]

\* Material GLTFLoader gives to a primitive that declares none.
DefaultMaterial ==
    [type |-> "MeshStandardMaterial", color |-> White, roughness |-> 10,
     metalness |-> 10, map |-> "null"]

TexturedMaterial ==
    [type |-> "MeshStandardMaterial", color |-> 255, roughness |-> 8,
     metalness |-> 0, map |-> "baseColorTexture0"]

\* new THREE.MeshStandardMaterial({ color: 0xffffff, roughness: 0.3, metalness: 0.1 })
CanonicalMaterial ==
    [type |-> "MeshStandardMaterial", color |-> White, roughness |-> 3,
     metalness |-> 1, map |-> "null"]

\* ------------------------------------------------------------------------
\* Geometry records (shared, immutable).  Geometry 0 is "no geometry".
\* ------------------------------------------------------------------------
Square ==
    <<Vec(0, 0, 0), Vec(1, 0, 0), Vec(0, 1, 0), Vec(1, 1, 0)>>

Geometries ==
    << \* 1: one triangle A=(0,0,0) B=(1,0,0) C=(0,1,0)
       [hasPosition |-> TRUE, position |-> Square, index |-> <<1, 2, 3>>],
       \* 2: one proper triangle and one degenerate triangle (coincident vertices)
       [hasPosition |-> TRUE, position |-> Square, index |-> <<2, 4, 3, 1, 1, 2>>],
       \* 3: a primitive without POSITION attribute
       [hasPosition |-> FALSE, position |-> <<>>, index |-> <<1, 2, 3>>] >>

Object3D(type, parent, children, geometry, material, position, scale) ==
    [type |-> type,
     parent |-> [kind |-> IF parent = 0 THEN "null" ELSE "node", id |-> parent],
     children |-> children, geometry |-> geometry, material |-> material,
     position |-> position, scale |-> scale, matrixWorld |-> IdentityMatrix]

\* Object3D.updateMatrix: the local matrix composed from position and scale.
LocalMatrix(node) == [s |-> node.scale, t |-> node.position]

RECURSIVE WorldMatrix(_, _)
\* Object3D.updateMatrixWorld on node n: the parent's world matrix times the
\* local matrix, the local matrix alone for a node without parent.
WorldMatrix(nodes, n) ==
    IF nodes[n].parent.kind = "node"
    THEN MultiplyMatrices(WorldMatrix(nodes, nodes[n].parent.id), LocalMatrix(nodes[n]))
    ELSE LocalMatrix(nodes[n])

\* Fault: the world matrix of a node is its local matrix, ancestors ignored.
UpdateMatrixWorldLocal(nodes) ==
    [n \in DOMAIN nodes |-> [nodes[n] EXCEPT !.matrixWorld = LocalMatrix(nodes[n])]]

\* GLTFLoader calls scene.updateMatrixWorld() on every loaded scene before
\* it hands the result to onLoad.
UpdateMatrixWorld(nodes) ==
    [n \in DOMAIN nodes |-> [nodes[n] EXCEPT !.matrixWorld = WorldMatrix(nodes, n)]]

\* ------------------------------------------------------------------------
\* The assets behind the URLs.  Node 1 is gltf.scene.
\* ------------------------------------------------------------------------
Assets ==
    << \* 1: group with a textured mesh and a nested, scaled mesh without material
       [wellFormed |-> TRUE,
        nodes |-> << Object3D("Group", 0, <<2, 3>>, 0, NullMaterial, Vec(0,0,0), Vec(1,1,1)),
                     Object3D("Mesh", 1, <<>>, 1, TexturedMaterial, Vec(0,0,0), Vec(1,1,1)),
                     Object3D("Group", 1, <<4>>, 0, NullMaterial, Vec(1,0,0), Vec(1,1,1)),
                     Object3D("Mesh", 3, <<>>, 2, DefaultMaterial, Vec(0,0,0), Vec(2,2,2)) >>],
       \* 2: a scene without any mesh
       [wellFormed |-> TRUE,
        nodes |-> << Object3D("Group", 0, <<2>>, 0, NullMaterial, Vec(0,0,0), Vec(1,1,1)),
                     Object3D("Object3D", 1, <<>>, 0, NullMaterial, Vec(0,0,0), Vec(1,1,1)) >>],
       \* 3: a mesh whose primitive has no POSITION attribute
       [wellFormed |-> TRUE,
        nodes |-> << Object3D("Group", 0, <<2>>, 0, NullMaterial, Vec(0,0,0), Vec(1,1,1)),
                     Object3D("Mesh", 1, <<>>, 3, DefaultMaterial, Vec(0,0,0), Vec(1,1,1)) >>],
       \* 4: not a glTF container
       [wellFormed |-> FALSE, nodes |-> <<>>],
       \* 5: an untransformed root with one child mesh scaled by (2,2,2)
       [wellFormed |-> TRUE,
        nodes |-> << Object3D("Group", 0, <<2>>, 0, NullMaterial, Vec(0,0,0), Vec(1,1,1)),
                     Object3D("Mesh", 1, <<>>, 1, DefaultMaterial, Vec(0,0,0), Vec(2,2,2)) >>],
       \* 6: a mesh that is the parent of another mesh
       [wellFormed |-> TRUE,
        nodes |-> << Object3D("Group", 0, <<2>>, 0, NullMaterial, Vec(0,0,0), Vec(1,1,1)),
                     Object3D("Mesh", 1, <<3>>, 1, DefaultMaterial, Vec(0,1,0), Vec(3,3,3)),
                     Object3D("Mesh", 2, <<>>, 2, DefaultMaterial, Vec(0,0,1), Vec(1,1,1)) >>] >>

Urls == 1..Len(Assets)

\* Outcomes of the network fetch other than a 200 response.
FetchFailures == {"http", "network", "timeout"}

\* What FileLoader hands to onError: an HttpError for a non-200 response,
\* the TypeError of a rejected fetch otherwise.
FetchErrorName(cause) == IF cause = "http" THEN "HttpError" ELSE "TypeError"

NoBlob == [size |-> 0, type |-> "none", data |-> <<>>]

VARIABLES
    modelUrl,       \* STLConverter prop (0 = null)
    isConverting,   \* STLConverter state
    toast,          \* last toast shown by the component
    downloads,      \* files saved by the browser: [url, blob]
    pc,             \* position of the component's current conversion
    glbUrl,         \* argument of convertGlbToStl
    sceneChildren,  \* children of each THREE.Scene: <<conversion, node>> references
    gltf,           \* nodes of the loaded gltf, <<>> before onLoad
    cursor,         \* position of gltf.scene.traverse
    promise,        \* state of the promise returned by convertGlbToStl
    result,         \* value the promise was resolved with
    error,          \* reason the promise was rejected with
    netEvent,       \* what happened to the fetch
    loadCalls,      \* loader.load calls of the current conversion
    settleCalls,    \* resolve / reject calls of the current conversion
    running         \* component whose callback is executing (0 = none)

\* State of the ModelGenerator component, of its requests and of the
\* generation provider behind the routes.
VARIABLES
    status,             \* "idle", "uploading", "generating", "completed", "error"
    genModelUrl,        \* the component's modelUrl state (0 = null)
    taskId,             \* 0 = null
    progress,
    isGenerating,
    attempts,
    errorMessage,
    pollingTimeoutRef,  \* task whose latest poll timer the ref holds (0 = null)
    polls,              \* per task: the pollTaskStatus closure polling it
    submits,            \* per submit: the generate-model request of the handler
    upstream            \* per task: what the provider reports about it

\* One invocation of a route handler.
VARIABLES
    rRoute,             \* the route called ("none" between requests)
    rReq,               \* the request
    rPc,                \* "idle", "fetching", "reading" (the body), "done"
    rUp,                \* the upstream response the handler received
    rResp,              \* the response of the route
    rFetches,           \* upstream fetches issued for the request
    rTimer,             \* the setTimeout that aborts the upstream fetch
    modelCache          \* the modelCache map of each caching route: its keys

convVars == <<modelUrl, isConverting, toast, downloads, pc, glbUrl,
              sceneChildren, gltf, cursor, promise, result, error, netEvent,
              loadCalls, settleCalls, running>>

genVars == <<status, genModelUrl, taskId, progress, isGenerating, attempts,
             errorMessage, pollingTimeoutRef, polls, submits, upstream>>

routeVars == <<rRoute, rReq, rPc, rUp, rResp, rFetches, rTimer, modelCache>>

vars == <<convVars, genVars, routeVars>>

Tasks == 1..MaxSubmits

NoError == [kind |-> "null", task |-> 0]

NoPoll == [phase |-> "none", attempts |-> 0, n |-> 0, branch |-> "none", delay |-> 0]

NoTask ==
    [status |-> "none", progress |-> 0, output_model |-> 0, result_model_url |-> 0,
     error_message |-> "none"]

NoRequest == [hasKey |-> FALSE, param |-> 0, format |-> "none", type |-> "none"]

NoUpstream ==
    [net |-> "none", http |-> 0, parses |-> FALSE, code |-> 0, task_id |-> 0,
     body |-> NoTask]

NoResponse ==
    [http |-> 0, kind |-> "none", status |-> "none", progress |-> 0, model_url |-> 0,
     error |-> "none", original_status |-> "none", taskId |-> 0]

\* The component after mount: the useState initial values, no request sent.
GenIdle ==
    /\ status = "idle"
    /\ genModelUrl = 0
    /\ taskId = 0
    /\ progress = 0
    /\ isGenerating = FALSE
    /\ attempts = 0
    /\ errorMessage = NoError
    /\ pollingTimeoutRef = 0
    /\ polls = [t \in Tasks |-> NoPoll]
    /\ submits = [s \in Tasks |-> "none"]
    /\ upstream = [t \in Tasks |-> NoTask]

\* The routes with a module-level modelCache.
CachingRoutes == {"download-model", "prefetch-model"}

\* No timeout has been set.
NoTimer == [state |-> "none", ms |-> 0]

\* No route handler is running, the server has just started.
RouteIdle ==
    /\ rRoute = "none"
    /\ rReq = NoRequest
    /\ rPc = "idle"
    /\ rUp = NoUpstream
    /\ rResp = NoResponse
    /\ rFetches = 0
    /\ rTimer = NoTimer
    /\ modelCache = [r \in CachingRoutes |-> {}]

\* ------------------------------------------------------------------------
\* Scene graph helpers
\* ------------------------------------------------------------------------
\* Fault: one scene object shared by all calls (a module-level scene).
SceneKeyShared(c) == 1

\* const scene = new THREE.Scene(): one scene object per call.
SceneKey(c) == c

\* Fault: the scene of the previous call is reused.
NewSceneKept(old) == old

\* A freshly constructed scene has no children.
NewScene(old) == <<>>

\* Fault: only textured meshes are recognised.
IsMeshTextured(node) == node.type = "Mesh" /\ node.material.map # "null"

\* child instanceof THREE.Mesh
IsMesh(node) == node.type = "Mesh"

RECURSIVE Traverse(_, _)
RECURSIVE TraverseChildren(_, _)
\* Object3D.traverse: the node, then each child's subtree in order.
Traverse(g, n) == <<n>> \o TraverseChildren(g, g[n].children)
TraverseChildren(g, ch) ==
    IF ch = <<>> THEN <<>>
    ELSE Traverse(g, Head(ch)) \o TraverseChildren(g, Tail(ch))

\* Fault: the mesh is rebuilt around the new material and loses its transform.
NormalizeNodeRebuilt(node) ==
    IF node.type = "Mesh"
    THEN [node EXCEPT !.material = CanonicalMaterial,
                      !.position = <<0, 0, 0>>, !.scale = <<1, 1, 1>>]
    ELSE node

\* The callback of gltf.scene.traverse applied to one node.
NormalizeNode(node) ==
    IF IsMesh(node) THEN [node EXCEPT !.material = CanonicalMaterial] ELSE node

\* ------------------------------------------------------------------------
\* STLExporter.parse(scene, { binary: true })
\* ------------------------------------------------------------------------
\* G maps each conversion to the node table of its loaded gltf; ch is the
\* children list of the scene that is exported.
NodeOf(G, ref) == G[ref[1]][ref[2]]

RefsOf(d, ns) == [i \in 1..Len(ns) |-> <<d, ns[i]>>]

RECURSIVE SceneTraverse(_, _)
\* scene.traverse: the subtrees of the scene's children, in order.  (The
\* Scene object itself is visited first; it is not a mesh.)  A graph that
\* is no longer loaded contributes no object.
SceneTraverse(G, ch) ==
    IF ch = <<>> THEN <<>>
    ELSE LET d == Head(ch)[1]
             r == Head(ch)[2]
         IN (IF G[d] = <<>> THEN <<>> ELSE RefsOf(d, Traverse(G[d], r)))
            \o SceneTraverse(G, Tail(ch))

\* Fault: the meshes are collected last to first.
ExportObjectsReversed(G, ch) ==
    LET objs == SelectSeq(SceneTraverse(G, ch), LAMBDA r : NodeOf(G, r).type = "Mesh")
    IN [i \in 1..Len(objs) |-> objs[Len(objs) + 1 - i]]

\* if ( object.isMesh ) objects.push( ... )
ExportObjects(G, ch) ==
    SelectSeq(SceneTraverse(G, ch), LAMBDA r : NodeOf(G, r).type = "Mesh")

\* index.count / 3
TriangleCount(node) == Len(Geometries[node.geometry].index) \div 3

RECURSIVE SumTriangles(_, _)
SumTriangles(G, objs) ==
    IF objs = <<>> THEN 0
    ELSE TriangleCount(NodeOf(G, Head(objs))) + SumTriangles(G, Tail(objs))

\* Reading a vertex of a geometry without position attribute throws.
ExporterThrows(G, ch) ==
    \E i \in 1..Len(ExportObjects(G, ch)) :
        LET node == NodeOf(G, ExportObjects(G, ch)[i])
        IN ~Geometries[node.geometry].hasPosition /\ TriangleCount(node) > 0

\* Fault: the edge vectors are crossed in the opposite order.
FaceNormalInverted(vA, vB, vC) ==
    NormalizeVec(Cross(SubVectors(vA, vB), SubVectors(vC, vB)))

\* writeNormal: cb.subVectors( vC, vB ); ab.subVectors( vA, vB );
\* cb.cross( ab ).normalize()
FaceNormal(vA, vB, vC) ==
    NormalizeVec(Cross(SubVectors(vC, vB), SubVectors(vA, vB)))

\* writeFace: the three vertices in world space (object.matrixWorld) and
\* the face normal computed from them.
FaceOf(node, j) ==
    LET geo == Geometries[node.geometry]
        vA == ApplyMatrix4(geo.position[geo.index[3 * j - 2]], node.matrixWorld)
        vB == ApplyMatrix4(geo.position[geo.index[3 * j - 1]], node.matrixWorld)
        vC == ApplyMatrix4(geo.position[geo.index[3 * j]], node.matrixWorld)
    IN [normal |-> FaceNormal(vA, vB, vC), vertices |-> <<vA, vB, vC>>]

\* for ( let j = 0; j < index.count; j += 3 ) writeFace( a, b, c, ... )
FacesOfNode(node) == [j \in 1..TriangleCount(node) |-> FaceOf(node, j)]

RECURSIVE FacesOf(_, _)
FacesOf(G, objs) ==
    IF objs = <<>> THEN <<>>
    ELSE FacesOfNode(NodeOf(G, Head(objs))) \o FacesOf(G, Tail(objs))

\* A write into the DataView: <<offset, byte size, value>>.
EndOffset(off, ws) ==
    IF ws = <<>> THEN off ELSE ws[Len(ws)][1] + ws[Len(ws)][2]

\* Three float32 values starting at off.
WriteVec(off, v) == << <<off, 4, v[1]>>, <<off + 4, 4, v[2]>>, <<off + 8, 4, v[3]>> >>

\* Normal, three vertices, then the attribute byte count setUint16( offset, 0 ).
FaceWrites(off, f) ==
    LET n == WriteVec(off, f.normal)
        a == WriteVec(EndOffset(off, n), f.vertices[1])
        b == WriteVec(EndOffset(off, a), f.vertices[2])
        c == WriteVec(EndOffset(off, b), f.vertices[3])
    IN n \o a \o b \o c \o << <<EndOffset(off, c), 2, 0>> >>

RECURSIVE WriteFaces(_, _)
WriteFaces(off, faces) ==
    IF faces = <<>> THEN <<>>
    ELSE LET ws == FaceWrites(off, Head(faces))
         IN ws \o WriteFaces(EndOffset(off, ws), Tail(faces))

\* Fault: the attribute bytes are left out of the buffer length.
BufferLengthNoAttr(triangles) == triangles * 3 * 4 * 4 + 80 + 4

\* const bufferLength = triangles * 2 + triangles * 3 * 4 * 4 + 80 + 4
BufferLength(triangles) == triangles * 2 + triangles * 3 * 4 * 4 + 80 + 4

\* Fault: only the first mesh is counted.
CountTrianglesFirstOnly(G, objs) ==
    IF objs = <<>> THEN 0 ELSE TriangleCount(NodeOf(G, Head(objs)))

\* triangles += index.count / 3, over the collected mesh objects
CountTriangles(G, objs) == SumTriangles(G, objs)

\* The DataView returned by parse: its length and the writes made into it.
\* The first 80 bytes are never written (zero header).
STLParse(G, ch) ==
    LET objs == ExportObjects(G, ch)
        triangles == CountTriangles(G, objs)
        count == << <<80, 4, triangles>> >>
    IN [byteLength |-> BufferLength(triangles),
        writes |-> count \o WriteFaces(EndOffset(80, count), FacesOf(G, objs))]

\* new Blob([stlData], { type: "application/octet-stream" })
MakeBlob(stl) ==
    [size |-> stl.byteLength, type |-> "application/octet-stream", data |-> stl.writes]

\* ------------------------------------------------------------------------
\* Initial state: the components are mounted with some modelUrl prop.
\* ------------------------------------------------------------------------
ConvIdle ==
    /\ isConverting = [c \in Conv |-> FALSE]
    /\ toast = [c \in Conv |-> "none"]
    /\ downloads = {}
    /\ pc = [c \in Conv |-> "idle"]
    /\ glbUrl = [c \in Conv |-> 0]
    /\ sceneChildren = [c \in Conv |-> <<>>]
    /\ gltf = [c \in Conv |-> <<>>]
    /\ cursor = [c \in Conv |-> 0]
    /\ promise = [c \in Conv |-> "none"]
    /\ result = [c \in Conv |-> NoBlob]
    /\ error = [c \in Conv |-> "none"]
    /\ netEvent = [c \in Conv |-> "none"]
    /\ loadCalls = [c \in Conv |-> 0]
    /\ settleCalls = [c \in Conv |-> 0]
    /\ running = 0

Init ==
    /\ modelUrl \in [Conv -> {0} \cup Urls]
    /\ ConvIdle
    /\ GenIdle
    /\ RouteIdle

\* ------------------------------------------------------------------------
\* handleConvertAndDownload up to the await, including the promise executor
\* of convertGlbToStl (new Scene, new GLTFLoader, loader.load).
\* ------------------------------------------------------------------------
Click(c) ==
    /\ running = 0
    /\ pc[c] = "idle"
    /\ ~isConverting[c]
    /\ modelUrl[c] # 0
    /\ isConverting' = [isConverting EXCEPT ![c] = TRUE]
    /\ toast' = [toast EXCEPT ![c] = "Processing"]
    /\ glbUrl' = [glbUrl EXCEPT ![c] = modelUrl[c]]
    /\ sceneChildren' = [sceneChildren EXCEPT ![SceneKey(c)] = NewScene(@)]
    /\ gltf' = [gltf EXCEPT ![c] = <<>>]
    /\ cursor' = [cursor EXCEPT ![c] = 0]
    /\ promise' = [promise EXCEPT ![c] = "pending"]
    /\ result' = [result EXCEPT ![c] = NoBlob]
    /\ error' = [error EXCEPT ![c] = "none"]
    /\ netEvent' = [netEvent EXCEPT ![c] = "pending"]
    /\ loadCalls' = [loadCalls EXCEPT ![c] = 1]
    /\ settleCalls' = [settleCalls EXCEPT ![c] = 0]
    /\ pc' = [pc EXCEPT ![c] = "loading"]
    /\ UNCHANGED <<modelUrl, downloads, running>>
    /\ UNCHANGED <<genVars, routeVars>>

\* Fault: the error callback starts the load again once before giving up.
AfterErrorRetry(c) ==
    IF loadCalls[c] < 2
    THEN [pc |-> "loading", promise |-> "pending", loadCalls |-> loadCalls[c] + 1]
    ELSE [pc |-> "rejected", promise |-> "rejected", loadCalls |-> loadCalls[c]]

\* What the error callback leaves behind: reject(error), nothing else.
AfterError(c) ==
    [pc |-> "rejected", promise |-> "rejected", loadCalls |-> loadCalls[c]]

\* The error callback of loader.load: the fetch failed, or the response is
\* not a glTF container.
OnError(c) ==
    /\ running = 0
    /\ pc[c] = "loading"
    /\ \E cause \in FetchFailures \cup {"parse"} :
        /\ cause = "parse" => ~Assets[glbUrl[c]].wellFormed
        /\ netEvent' = [netEvent EXCEPT ![c] = IF cause = "parse" THEN "ok" ELSE cause]
        /\ error' = [error EXCEPT ![c] =
                        IF cause = "parse" THEN "SyntaxError" ELSE FetchErrorName(cause)]
    /\ pc' = [pc EXCEPT ![c] = AfterError(c).pc]
    /\ promise' = [promise EXCEPT ![c] = AfterError(c).promise]
    /\ loadCalls' = [loadCalls EXCEPT ![c] = AfterError(c).loadCalls]
    /\ settleCalls' = [settleCalls EXCEPT ![c] =
                          IF AfterError(c).promise = "rejected" THEN @ + 1 ELSE @]
    /\ UNCHANGED <<modelUrl, isConverting, toast, downloads, glbUrl,
                   sceneChildren, gltf, cursor, result, running>>
    /\ UNCHANGED <<genVars, routeVars>>

\* The load callback starts: scene.add(gltf.scene).
OnLoad(c) ==
    /\ running = 0
    /\ pc[c] = "loading"
    /\ Assets[glbUrl[c]].wellFormed
    /\ netEvent' = [netEvent EXCEPT ![c] = "ok"]
    /\ gltf' = [gltf EXCEPT ![c] =
                  [UpdateMatrixWorld(Assets[glbUrl[c]].nodes) EXCEPT
                      ![1].parent = [kind |-> "scene", id |-> SceneKey(c)]]]
    /\ sceneChildren' = [sceneChildren EXCEPT ![SceneKey(c)] = Append(@, <<c, 1>>)]
    /\ cursor' = [cursor EXCEPT ![c] = 1]
    /\ pc' = [pc EXCEPT ![c] = "normalize"]
    /\ running' = c
    /\ UNCHANGED <<modelUrl, isConverting, toast, downloads, glbUrl,
                   promise, result, error, loadCalls, settleCalls>>
    /\ UNCHANGED <<genVars, routeVars>>

\* Fault: the traversal stops after the first node.
TraverseDoneEarly(c, order) == cursor[c] >= 1

\* The traversal has visited every node of gltf.scene.
TraverseDone(c, order) == cursor[c] >= Len(order)

\* gltf.scene.traverse: the callback on the next node.
TraverseVisit(c) ==
    /\ running = c
    /\ pc[c] = "normalize"
    /\ LET order == Traverse(gltf[c], 1)
           n == order[cursor[c]]
       IN /\ gltf' = [gltf EXCEPT ![c][n] = NormalizeNode(@)]
          /\ cursor' = [cursor EXCEPT ![c] = @ + 1]
          /\ pc' = [pc EXCEPT ![c] = IF TraverseDone(c, order) THEN "export" ELSE @]
    /\ UNCHANGED <<modelUrl, isConverting, toast, downloads, glbUrl,
                   sceneChildren, promise, result, error, netEvent, loadCalls,
                   settleCalls, running>>
    /\ UNCHANGED <<genVars, routeVars>>

\* exporter.parse, new Blob, resolve(blob).
ExportResolve(c) ==
    /\ running = c
    /\ pc[c] = "export"
    /\ ~ExporterThrows(gltf, sceneChildren[SceneKey(c)])
    /\ result' = [result EXCEPT ![c] = MakeBlob(STLParse(gltf, sceneChildren[SceneKey(c)]))]
    /\ promise' = [promise EXCEPT ![c] = "fulfilled"]
    /\ settleCalls' = [settleCalls EXCEPT ![c] = @ + 1]
    /\ pc' = [pc EXCEPT ![c] = "resolved"]
    /\ running' = 0
    /\ UNCHANGED <<modelUrl, isConverting, toast, downloads, glbUrl,
                   sceneChildren, gltf, cursor, error, netEvent, loadCalls>>
    /\ UNCHANGED <<genVars, routeVars>>

\* exporter.parse throws: catch (error) { reject(error) }.
ExportCatch(c) ==
    /\ running = c
    /\ pc[c] = "export"
    /\ ExporterThrows(gltf, sceneChildren[SceneKey(c)])
    /\ error' = [error EXCEPT ![c] = "TypeError"]
    /\ promise' = [promise EXCEPT ![c] = "rejected"]
    /\ settleCalls' = [settleCalls EXCEPT ![c] = @ + 1]
    /\ pc' = [pc EXCEPT ![c] = "rejected"]
    /\ running' = 0
    /\ UNCHANGED <<modelUrl, isConverting, toast, downloads, glbUrl,
                   sceneChildren, gltf, cursor, result, netEvent, loadCalls>>
    /\ UNCHANGED <<genVars, routeVars>>

\* handleConvertAndDownload after the await: download model.stl, toast,
\* finally.  The promise and the objects of the finished call are dropped;
\* the scene object stays as it is until the next call builds a new one.
CallerThen(c) ==
    /\ running = 0
    /\ pc[c] = "resolved"
    /\ downloads' = downloads \cup {[url |-> glbUrl[c], blob |-> result[c]]}
    /\ toast' = [toast EXCEPT ![c] = "Download complete"]
    /\ isConverting' = [isConverting EXCEPT ![c] = FALSE]
    /\ pc' = [pc EXCEPT ![c] = "idle"]
    /\ glbUrl' = [glbUrl EXCEPT ![c] = 0]
    /\ gltf' = [gltf EXCEPT ![c] = <<>>]
    /\ cursor' = [cursor EXCEPT ![c] = 0]
    /\ promise' = [promise EXCEPT ![c] = "none"]
    /\ result' = [result EXCEPT ![c] = NoBlob]
    /\ netEvent' = [netEvent EXCEPT ![c] = "none"]
    /\ loadCalls' = [loadCalls EXCEPT ![c] = 0]
    /\ settleCalls' = [settleCalls EXCEPT ![c] = 0]
    /\ UNCHANGED <<modelUrl, sceneChildren, error, running>>
    /\ UNCHANGED <<genVars, routeVars>>

\* handleConvertAndDownload: catch (error), toast, finally.
CallerCatch(c) ==
    /\ running = 0
    /\ pc[c] = "rejected"
    /\ toast' = [toast EXCEPT ![c] = "Error"]
    /\ isConverting' = [isConverting EXCEPT ![c] = FALSE]
    /\ pc' = [pc EXCEPT ![c] = "idle"]
    /\ glbUrl' = [glbUrl EXCEPT ![c] = 0]
    /\ gltf' = [gltf EXCEPT ![c] = <<>>]
    /\ cursor' = [cursor EXCEPT ![c] = 0]
    /\ promise' = [promise EXCEPT ![c] = "none"]
    /\ error' = [error EXCEPT ![c] = "none"]
    /\ netEvent' = [netEvent EXCEPT ![c] = "none"]
    /\ loadCalls' = [loadCalls EXCEPT ![c] = 0]
    /\ settleCalls' = [settleCalls EXCEPT ![c] = 0]
    /\ UNCHANGED <<modelUrl, downloads, sceneChildren, result, running>>
    /\ UNCHANGED <<genVars, routeVars>>

Next ==
    \E c \in Conv :
        \/ Click(c)
        \/ OnError(c)
        \/ OnLoad(c)
        \/ TraverseVisit(c)
        \/ ExportResolve(c)
        \/ ExportCatch(c)
        \/ CallerThen(c)
        \/ CallerCatch(c)

Spec == Init /\ [][Next]_vars

\* ------------------------------------------------------------------------
\* Reading the input asset and the output file
\* ------------------------------------------------------------------------
RECURSIVE IndexTriplesUpTo(_, _)
IndexTriplesUpTo(nodes, i) ==
    IF i = 0 THEN 0
    ELSE (IF nodes[i].type = "Mesh"
          THEN Len(Geometries[nodes[i].geometry].index) \div 3 ELSE 0)
         + IndexTriplesUpTo(nodes, i - 1)

\* N: the index triples carried by the mesh-bearing nodes of the asset at u.
IndexTriples(u) == IndexTriplesUpTo(Assets[u].nodes, Len(Assets[u].nodes))

\* The asset at u has a triangle with two coincident vertices.
HasDegenerate(u) ==
    \E i \in 1..Len(Assets[u].nodes) :
        LET node == Assets[u].nodes[i]
            idx == Geometries[node.geometry].index
        IN /\ node.type = "Mesh"
           /\ \E j \in 1..(Len(idx) \div 3) : idx[3 * j - 2] = idx[3 * j - 1]

\* The uint32 at byte 80 of the file.
DeclaredTriangles(blob) == blob.data[1][3]

\* The attribute words written, one per emitted triangle.
AttributeWrites(blob) == {i \in 1..Len(blob.data) : blob.data[i][2] = 2}

EmittedTriangles(blob) == Cardinality(AttributeWrites(blob))

\* C1: a conversion that succeeds on an asset whose mesh-bearing nodes carry
\* N index triples declares N triangles in the STL header and emits N
\* triangle records, degenerate triangles included.
C1_TriangleCount ==
    \A c \in Conv :
        pc[c] = "resolved" =>
            /\ DeclaredTriangles(result[c]) = IndexTriples(glbUrl[c])
            /\ EmittedTriangles(result[c]) = IndexTriples(glbUrl[c])

C1_Witness ==
    \E c \in Conv :
        /\ pc[c] = "resolved"
        /\ HasDegenerate(glbUrl[c])
        /\ IndexTriples(glbUrl[c]) = 3
        /\ DeclaredTriangles(result[c]) = 3

\* C2: the STL of a successful conversion with N triangles is 80 + 4 + 50*N
\* bytes long: the writes start at byte 80, follow each other without gap,
\* end at the last byte, and every attribute word is zero.
C2_ByteLength ==
    \A c \in Conv :
        pc[c] = "resolved" =>
            LET b == result[c] IN
            /\ b.size = 80 + 4 + 50 * DeclaredTriangles(b)
            /\ b.data[1][1] = 80
            /\ \A i \in 1..(Len(b.data) - 1) :
                   b.data[i + 1][1] = b.data[i][1] + b.data[i][2]
            /\ EndOffset(80, b.data) = b.size
            /\ \A i \in AttributeWrites(b) : b.data[i][3] = 0

C2_Witness ==
    \E c \in Conv :
        /\ pc[c] = "resolved"
        /\ DeclaredTriangles(result[c]) = 3
        /\ result[c].size = 234

\* C3: two conversions of the same asset give the same file, whether they
\* run one after the other or at the same time.
C3_Deterministic ==
    /\ \A d1, d2 \in downloads : d1.url = d2.url => d1.blob = d2.blob
    /\ \A c \in Conv : \A d \in downloads :
           (pc[c] = "resolved" /\ d.url = glbUrl[c]) => d.blob = result[c]
    /\ \A c1, c2 \in Conv :
           (pc[c1] = "resolved" /\ pc[c2] = "resolved" /\ glbUrl[c1] = glbUrl[c2])
               => result[c1] = result[c2]

\* A second conversion of an asset with triangles has finished after the file
\* of the first one was saved, and a third one has finished beside it.
C3_Witness ==
    \E c1, c2 \in Conv : \E d \in downloads :
        /\ c1 # c2
        /\ pc[c1] = "resolved" /\ pc[c2] = "resolved"
        /\ glbUrl[c1] = glbUrl[c2]
        /\ d.url = glbUrl[c1]
        /\ d.blob = result[c1]
        /\ DeclaredTriangles(result[c1]) > 0

\* No node of the asset at u is a mesh.
NoMeshNode(u) ==
    \A i \in 1..Len(Assets[u].nodes) : Assets[u].nodes[i].type # "Mesh"

\* C4: a conversion of an asset without any mesh-bearing node fails with
\* EmptySceneError, and no successful conversion returns a zero-triangle STL.
C4_EmptySceneError ==
    \A c \in Conv :
        /\ (/\ pc[c] \in {"resolved", "rejected"}
            /\ netEvent[c] = "ok"
            /\ Assets[glbUrl[c]].wellFormed
            /\ NoMeshNode(glbUrl[c]))
              => (pc[c] = "rejected" /\ error[c] = "EmptySceneError")
        /\ pc[c] = "resolved" => DeclaredTriangles(result[c]) > 0

\* C5: once the normalization is over, every mesh-bearing node of the loaded
\* graph, and so every exported object, carries the canonical material:
\* white, roughness 0.3, metalness 0.1, no texture.
C5_CanonicalMaterial ==
    \A c \in Conv :
        pc[c] \in {"export", "resolved"} =>
            /\ \A n \in DOMAIN gltf[c] :
                   gltf[c][n].type = "Mesh" =>
                       /\ gltf[c][n].material = CanonicalMaterial
                       /\ gltf[c][n].material.map = "null"
                       /\ gltf[c][n].material.color = White
            /\ LET objs == ExportObjects(gltf, sceneChildren[SceneKey(c)])
               IN \A i \in 1..Len(objs) :
                      NodeOf(gltf, objs[i]).material = CanonicalMaterial

\* The asset had a textured mesh and a mesh without material of its own.
C5_Witness ==
    \E c \in Conv :
        /\ pc[c] = "export"
        /\ \E n \in DOMAIN gltf[c] :
               /\ Assets[glbUrl[c]].nodes[n].material = TexturedMaterial
               /\ gltf[c][n].material = CanonicalMaterial
        /\ \E n \in DOMAIN gltf[c] :
               /\ Assets[glbUrl[c]].nodes[n].material = DefaultMaterial
               /\ gltf[c][n].material = CanonicalMaterial

\* What the normalization must leave alone in node n of a graph.
Structure(g, n) ==
    <<g[n].type, g[n].parent, g[n].children, g[n].geometry, g[n].position,
      g[n].scale, g[n].matrixWorld>>

\* C6: a step of the normalization changes nothing but the material of a
\* mesh-bearing node: type, parent, children, geometry and transform of every
\* node stay, a node without mesh stays as a whole, the scene keeps its
\* children.
C6_NormalizeFrame ==
    [][\A c \in Conv :
          pc[c] = "normalize" =>
              /\ DOMAIN gltf'[c] = DOMAIN gltf[c]
              /\ \A n \in DOMAIN gltf[c] :
                     /\ Structure(gltf'[c], n) = Structure(gltf[c], n)
                     /\ gltf[c][n].type # "Mesh" => gltf'[c][n] = gltf[c][n]
              /\ sceneChildren' = sceneChildren]_vars

\* Midway: a scaled mesh has received the canonical material and kept its
\* scale, the traversal is still running.
C6_Witness ==
    \E c \in Conv :
        /\ pc[c] \in {"normalize", "export"}
        /\ \E n \in DOMAIN gltf[c] :
               /\ gltf[c][n].type = "Mesh"
               /\ Assets[glbUrl[c]].nodes[n].material # CanonicalMaterial
               /\ gltf[c][n].material = CanonicalMaterial
               /\ gltf[c][n].scale = <<2, 2, 2>>

StageRank(p) ==
    CASE p = "idle" -> 0
      [] p = "loading" -> 1
      [] p = "normalize" -> 2
      [] p = "export" -> 3
      [] OTHER -> 4

\* C7: while the load is pending nothing of the later stages exists; the
\* normalization works on a loaded graph; the export starts with every
\* mesh-bearing node normalized and the traversal at its end; the position
\* of a conversion only moves forward, until the caller has taken the result.
C7_StageOrder ==
    /\ [](\A c \in Conv :
            /\ pc[c] = "loading" =>
                   gltf[c] = <<>> /\ cursor[c] = 0 /\ result[c] = NoBlob
            /\ pc[c] = "normalize" =>
                   /\ gltf[c] # <<>> /\ netEvent[c] = "ok"
                   /\ cursor[c] \in 1..Len(gltf[c])
                   /\ result[c] = NoBlob /\ promise[c] = "pending"
            /\ pc[c] = "export" =>
                   /\ cursor[c] = Len(gltf[c]) + 1
                   /\ \A n \in DOMAIN gltf[c] :
                          gltf[c][n].type = "Mesh" =>
                              gltf[c][n].material = CanonicalMaterial
                   /\ result[c] = NoBlob /\ promise[c] = "pending")
    /\ [][\A c \in Conv :
            /\ \/ pc'[c] = pc[c]
               \/ StageRank(pc'[c]) = StageRank(pc[c]) + 1
               \/ pc[c] = "loading" /\ pc'[c] = "rejected"
               \/ StageRank(pc[c]) = 4 /\ pc'[c] = "idle"
            /\ pc[c] = "normalize" => cursor'[c] >= cursor[c]]_vars

C7_Witness ==
    \E c \in Conv :
        /\ pc[c] = "export"
        /\ Len(gltf[c]) = 4
        /\ cursor[c] = 5

\* C8: a conversion calls loader.load once and settles once; after a failure
\* the promise is rejected, the stages after the failed one have not run, no
\* blob exists, the caller saves no file, and the load starts again only by a
\* new click on the idle component.
C8_ErrorTerminal ==
    /\ [](\A c \in Conv :
            /\ loadCalls[c] <= 1
            /\ settleCalls[c] <= 1
            /\ pc[c] \in {"loading", "normalize", "export"} => settleCalls[c] = 0
            /\ pc[c] = "rejected" =>
                   /\ promise[c] = "rejected" /\ settleCalls[c] = 1
                   /\ error[c] # "none"
                   /\ result[c] = NoBlob
                   /\ netEvent[c] \in FetchFailures =>
                          gltf[c] = <<>> /\ cursor[c] = 0
                   /\ ~Assets[glbUrl[c]].wellFormed =>
                          gltf[c] = <<>> /\ cursor[c] = 0)
    /\ [][\A c \in Conv :
            /\ pc[c] = "rejected" =>
                   /\ pc'[c] \in {"rejected", "idle"}
                   /\ result'[c] = NoBlob
                   /\ pc'[c] = "idle" => downloads' = downloads /\ toast'[c] = "Error"
            /\ (pc[c] = "loading" /\ netEvent'[c] \in FetchFailures) =>
                   pc'[c] = "rejected"
            /\ (pc'[c] = "loading" /\ pc[c] # "loading") =>
                   pc[c] = "idle" /\ ~isConverting[c] /\ isConverting'[c]]_vars

\* One conversion has failed in the fetch, another one in the export.
C8_Witness ==
    \E c1, c2 \in Conv :
        /\ pc[c1] = "rejected" /\ netEvent[c1] \in FetchFailures
        /\ pc[c2] = "rejected" /\ netEvent[c2] = "ok" /\ gltf[c2] # <<>>

\* The file a conversion of the asset at u produces when nothing else runs.
AloneResult(u) ==
    MakeBlob(STLParse([d \in {1} |-> UpdateMatrixWorld(Assets[u].nodes)], << <<1, 1>> >>))

AloneThrows(u) ==
    ExporterThrows([d \in {1} |-> Assets[u].nodes], << <<1, 1>> >>)

\* The objects one conversion works on.
Local(c) ==
    <<gltf[c], sceneChildren[SceneKey(c)], cursor[c], promise[c], result[c], error[c]>>

\* C9: whatever the other conversions do, a conversion ends as it would
\* alone; its scene holds its own graph only, and no step touches the
\* objects of two conversions.
C9_Isolation ==
    /\ [](\A c \in Conv :
            /\ pc[c] = "resolved" => result[c] = AloneResult(glbUrl[c])
            /\ (pc[c] = "rejected" /\ netEvent[c] = "ok" /\ Assets[glbUrl[c]].wellFormed)
                   => AloneThrows(glbUrl[c])
            /\ pc[c] \in {"normalize", "export", "resolved"} =>
                   sceneChildren[SceneKey(c)] = << <<c, 1>> >>)
    /\ [][\A c1, c2 \in Conv :
            c1 # c2 => ~(Local(c1)' # Local(c1) /\ Local(c2)' # Local(c2))]_vars

\* Two conversions of different assets are under way together, one has its
\* result, the other one is in its export.
C9_Witness ==
    \E c1, c2 \in Conv :
        /\ c1 # c2
        /\ glbUrl[c1] # glbUrl[c2]
        /\ pc[c1] = "resolved" /\ DeclaredTriangles(result[c1]) > 0
        /\ pc[c2] = "export"

\* C10: a fetch that timed out and a fetch that failed for another reason
\* reach the caller as two different errors (FetchTimeoutError and
\* FetchFailedError), so that the caller can tell the two apart.
C10_DistinctFetchErrors ==
    \A c1, c2 \in Conv :
        (/\ pc[c1] = "rejected" /\ netEvent[c1] = "timeout"
         /\ pc[c2] = "rejected" /\ netEvent[c2] \in FetchFailures \ {"timeout"})
            => error[c1] # error[c2]

\* ------------------------------------------------------------------------
\* The triangles of the output file and of the input asset
\* ------------------------------------------------------------------------
\* Triangle k of the file: 12 float32 values and the attribute count follow
\* the triangle count.
ExportedFace(blob, k) ==
    LET val(i) == blob.data[1 + 13 * (k - 1) + i][3]
    IN [normal |-> <<val(1), val(2), val(3)>>,
        vertices |-> << <<val(4), val(5), val(6)>>,
                        <<val(7), val(8), val(9)>>,
                        <<val(10), val(11), val(12)>> >>]

ExportedFaces(blob) == [k \in 1..EmittedTriangles(blob) |-> ExportedFace(blob, k)]

RECURSIVE ToWorld(_, _, _)
\* Point p of node n's local frame in world space: the node's own scale and
\* position first, then each ancestor's, up to the root.
ToWorld(nodes, n, p) ==
    LET q == <<nodes[n].scale[1] * p[1] + nodes[n].position[1],
               nodes[n].scale[2] * p[2] + nodes[n].position[2],
               nodes[n].scale[3] * p[3] + nodes[n].position[3]>>
    IN IF nodes[n].parent.kind = "node" THEN ToWorld(nodes, nodes[n].parent.id, q) ELSE q

\* A source triangle of the asset at u: <<mesh node, index triple>>.
Sources(u) ==
    {s \in (DOMAIN Assets[u].nodes) \X (1..2) :
        /\ Assets[u].nodes[s[1]].type = "Mesh"
        /\ s[2] <= Len(Geometries[Assets[u].nodes[s[1]].geometry].index) \div 3}

\* The three corners of a source triangle in world space.
WorldTriangle(u, s) ==
    LET nodes == Assets[u].nodes
        geo == Geometries[nodes[s[1]].geometry]
    IN [i \in 1..3 |-> ToWorld(nodes, s[1], geo.position[geo.index[3 * (s[2] - 1) + i]])]

RECURSIVE PathOf(_, _)
\* The place of node n in the declared hierarchy: the child positions on the
\* way from the root to n.
PathOf(nodes, n) ==
    IF nodes[n].parent.kind = "node"
    THEN LET siblings == nodes[nodes[n].parent.id].children
         IN Append(PathOf(nodes, nodes[n].parent.id),
                   CHOOSE i \in 1..Len(siblings) : siblings[i] = n)
    ELSE <<>>

RECURSIVE PathBefore(_, _)
\* Depth-first order on paths: a parent before its descendants, an earlier
\* sibling's subtree before a later sibling's.
PathBefore(a, b) ==
    IF a = <<>> THEN b # <<>>
    ELSE IF b = <<>> THEN FALSE
    ELSE \/ Head(a) < Head(b)
         \/ Head(a) = Head(b) /\ PathBefore(Tail(a), Tail(b))

SourceBefore(u, r, s) ==
    \/ PathBefore(PathOf(Assets[u].nodes, r[1]), PathOf(Assets[u].nodes, s[1]))
    \/ r[1] = s[1] /\ r[2] < s[2]

\* The source triangles of the asset in depth-first order.
SourceOrder(u) ==
    [k \in 1..Cardinality(Sources(u)) |->
        CHOOSE s \in Sources(u) :
            Cardinality({r \in Sources(u) : SourceBefore(u, r, s)}) = k - 1]

\* C11: the vertex positions of the exported triangles are the local
\* positions of the asset's triangles carried through the local transform of
\* the node and then of each ancestor up to the root; the mesh scaled by
\* (2,2,2) under an untransformed root comes out with doubled coordinates.
C11_WorldTransform ==
    \A c \in Conv :
        pc[c] = "resolved" =>
            LET faces == ExportedFaces(result[c])
                u == glbUrl[c]
            IN /\ {faces[k].vertices : k \in 1..Len(faces)}
                      = {WorldTriangle(u, s) : s \in Sources(u)}
               /\ u = 5 =>
                      \A k \in 1..Len(faces) : \A i \in 1..3 : \A x \in 1..3 :
                          LET geo == Geometries[Assets[u].nodes[2].geometry]
                          IN faces[k].vertices[i][x]
                                 = 2 * geo.position[geo.index[3 * (k - 1) + i]][x]

\* Two exports: the doubled triangle, and a mesh scaled below a moved group.
C11_Witness ==
    /\ \E c \in Conv :
           /\ pc[c] = "resolved" /\ glbUrl[c] = 5
           /\ ExportedFaces(result[c])[1].vertices = <<Vec(0,0,0), Vec(2,0,0), Vec(0,2,0)>>
    /\ \E c \in Conv :
           /\ pc[c] = "resolved" /\ glbUrl[c] = 1
           /\ ExportedFaces(result[c])[2].vertices = <<Vec(3,0,0), Vec(3,2,0), Vec(1,2,0)>>

\* C12: the exported normal of a triangle (A,B,C) is the normalized
\* (B-A) x (C-A), never its negation; the triangle (0,0,0), (1,0,0), (0,1,0)
\* gets the normal (0,0,1).
C12_NormalRightHand ==
    \A c \in Conv :
        pc[c] = "resolved" =>
            \A k \in 1..EmittedTriangles(result[c]) :
                LET f == ExportedFace(result[c], k)
                    n == Cross(SubVectors(f.vertices[2], f.vertices[1]),
                               SubVectors(f.vertices[3], f.vertices[1]))
                IN /\ f.normal = NormalizeVec(n)
                   /\ n # <<0, 0, 0>> => f.normal # NormalizeVec(<<-n[1], -n[2], -n[3]>>)
                   /\ f.vertices = <<Vec(0,0,0), Vec(1,0,0), Vec(0,1,0)>>
                          => f.normal = Vec(0,0,1)

C12_Witness ==
    \E c \in Conv :
        /\ pc[c] = "resolved"
        /\ \E k \in 1..EmittedTriangles(result[c]) :
               /\ ExportedFace(result[c], k).vertices = <<Vec(0,0,0), Vec(1,0,0), Vec(0,1,0)>>
               /\ ExportedFace(result[c], k).normal = Vec(0,0,1)

\* C13: the k-th triangle of the file is the k-th source triangle of the
\* asset in depth-first order of the declared hierarchy (parent before
\* child, siblings as declared, index triples of one mesh in sequence).
C13_TraversalOrder ==
    \A c \in Conv :
        pc[c] = "resolved" =>
            LET faces == ExportedFaces(result[c])
                order == SourceOrder(glbUrl[c])
            IN /\ Len(faces) = Len(order)
               /\ \A k \in 1..Len(faces) :
                      faces[k].vertices = WorldTriangle(glbUrl[c], order[k])

\* A mesh was exported before its child mesh, whose two triangles follow in
\* index order.
C13_Witness ==
    \E c \in Conv :
        /\ pc[c] = "resolved" /\ glbUrl[c] = 6
        /\ SourceOrder(6) = << <<2, 1>>, <<3, 1>>, <<3, 2>> >>
        /\ ExportedFaces(result[c])[1].vertices = <<Vec(0,1,0), Vec(3,1,0), Vec(0,4,0)>>
        /\ ExportedFaces(result[c])[2].vertices = <<Vec(3,1,3), Vec(3,4,3), Vec(0,4,3)>>
        /\ ExportedFaces(result[c])[3].vertices = <<Vec(0,1,3), Vec(0,1,3), Vec(3,1,3)>>

\* ------------------------------------------------------------------------
\* The route handlers of app/api: what a handler answers to a request, given
\* what its upstream fetch brings.
\* ------------------------------------------------------------------------
Routes ==
    {"generate-model", "task-status", "download-original", "convert-to-stl",
     "download-model", "prefetch-model", "upload-image", "task-status-v1"}

\* response.ok
Ok(http) == http >= 200 /\ http <= 299

\* NextResponse.json({ error: ... }, { status: http })
ErrorResponse(http, msg) ==
    [NoResponse EXCEPT !.http = http, !.kind = "error", !.error = msg]

\* What the handler answers before any upstream fetch; NoResponse when the
\* request passes.
ValidateGenerateModel(req) ==
    IF ~req.hasKey THEN ErrorResponse(500, "API key not configured")
    ELSE IF req.format # "json" THEN ErrorResponse(500, "Internal server error")
    ELSE IF req.type \notin {"text", "image"} THEN ErrorResponse(400, "Invalid generation type")
    ELSE NoResponse

\* The handler without its check of the provider's code.
CompleteGenerateModelAnyCode(req, up) ==
    IF up.net = "abort" THEN ErrorResponse(504, "API request timeout")
    ELSE IF up.net = "throw" THEN ErrorResponse(500, "Internal server error")
    ELSE IF ~Ok(up.http) THEN ErrorResponse(up.http, "Failed to start model generation")
    ELSE IF ~up.parses THEN ErrorResponse(500, "Invalid response from Tripo API")
    ELSE IF up.task_id = 0 THEN ErrorResponse(500, "Invalid response from Tripo API")
    ELSE [NoResponse EXCEPT !.http = 200, !.kind = "json", !.taskId = up.task_id]

\* The handler from the upstream fetch on.
CompleteGenerateModel(req, up) ==
    IF up.net = "abort" THEN ErrorResponse(504, "API request timeout")
    ELSE IF up.net = "throw" THEN ErrorResponse(500, "Internal server error")
    ELSE IF ~Ok(up.http) THEN ErrorResponse(up.http, "Failed to start model generation")
    ELSE IF ~up.parses THEN ErrorResponse(500, "Invalid response from Tripo API")
    ELSE IF up.code = 2000 THEN ErrorResponse(429, "Rate limit exceeded")
    ELSE IF up.code = 2010 THEN ErrorResponse(403, "Insufficient credits")
    ELSE IF up.code = 2008 THEN ErrorResponse(400, "Content policy violation")
    ELSE IF up.code # 0 THEN ErrorResponse(400, "Tripo API error")
    ELSE IF up.task_id = 0 THEN ErrorResponse(500, "Invalid response from Tripo API")
    ELSE [NoResponse EXCEPT !.http = 200, !.kind = "json", !.taskId = up.task_id]

GenerateModelRoute(req, up) ==
    IF ValidateGenerateModel(req) # NoResponse THEN ValidateGenerateModel(req)
    ELSE CompleteGenerateModel(req, up)

ValidateTaskStatus(req) ==
    IF req.param = 0
    THEN [ErrorResponse(400, "Task ID is required") EXCEPT !.status = "error"]
    ELSE IF ~req.hasKey
    THEN [ErrorResponse(500, "API key not configured") EXCEPT !.status = "error"]
    ELSE NoResponse

\* The provider's report handed on under the provider's own names.
FormatTaskStatusRaw(body) ==
    [NoResponse EXCEPT !.http = 200, !.kind = "json", !.status = body.status,
                       !.progress = body.progress, !.model_url = body.result_model_url]

\* The status mapping of the task-status route.
FormatTaskStatus(body) ==
    LET json == [NoResponse EXCEPT !.http = 200, !.kind = "json"]
    IN IF body.status = "waiting"
       THEN [json EXCEPT !.status = "queued", !.progress = 0]
       ELSE IF body.status = "running"
       THEN [json EXCEPT !.status = "processing",
                         !.progress = IF body.progress = -1 THEN 0 ELSE body.progress]
       ELSE IF body.status = "succeeded"
       THEN [json EXCEPT !.status = "completed", !.progress = 100,
                         !.model_url = body.result_model_url]
       ELSE IF body.status = "failed"
       THEN [json EXCEPT !.status = "error",
                         !.error = IF body.error_message = "none"
                                   THEN "Task failed without specific error message"
                                   ELSE body.error_message]
       ELSE [json EXCEPT !.status = "unknown", !.original_status = body.status]

CompleteTaskStatus(req, up) ==
    IF up.net = "abort"
    THEN [ErrorResponse(504, "Request timed out") EXCEPT !.status = "error"]
    ELSE IF up.net = "throw"
    THEN [ErrorResponse(500, "fetch failed") EXCEPT !.status = "error"]
    ELSE IF ~Ok(up.http)
    THEN [ErrorResponse(up.http, "API request failed") EXCEPT !.status = "error"]
    ELSE IF ~up.parses
    THEN [ErrorResponse(500, "Error parsing API response") EXCEPT !.status = "error"]
    ELSE FormatTaskStatus(up.body)

TaskStatusRoute(req, up) ==
    IF ValidateTaskStatus(req) # NoResponse THEN ValidateTaskStatus(req)
    ELSE CompleteTaskStatus(req, up)

\* The earlier task-status handler: the provider's status is passed on.
CompleteTaskStatusV1(req, up) ==
    IF up.net = "throw" THEN ErrorResponse(500, "Internal server error")
    ELSE IF ~Ok(up.http)
    THEN (IF up.parses THEN ErrorResponse(up.http, "Failed to get task status")
          ELSE ErrorResponse(500, "Internal server error"))
    ELSE IF ~up.parses THEN ErrorResponse(500, "Internal server error")
    ELSE [NoResponse EXCEPT !.http = 200, !.kind = "json", !.status = up.body.status,
                            !.progress = up.body.progress,
                            !.model_url = IF up.body.status = "success"
                                          THEN up.body.output_model ELSE 0]

\* The upload handler: formData(), the file field, the provider's upload.
ValidateUploadImage(req) ==
    IF req.format # "multipart" THEN ErrorResponse(500, "Internal server error")
    ELSE IF req.param = 0 THEN ErrorResponse(400, "No file provided")
    ELSE NoResponse

CompleteUploadImage(req, up) ==
    IF up.net = "throw" THEN ErrorResponse(500, "Internal server error")
    ELSE IF ~Ok(up.http)
    THEN (IF up.parses THEN ErrorResponse(up.http, "Failed to upload image to Tripo API")
          ELSE ErrorResponse(500, "Internal server error"))
    ELSE IF ~up.parses THEN ErrorResponse(500, "Internal server error")
    ELSE [NoResponse EXCEPT !.http = 200, !.kind = "json", !.taskId = up.task_id]

\* No check of the url parameter.
ValidateUrlSkipped(req) == NoResponse

\* The handlers that take a url parameter.
ValidateUrl(req) ==
    IF req.param = 0 THEN ErrorResponse(400, "Model URL is required") ELSE NoResponse

\* fetch(url), then the body as an ArrayBuffer.
CompleteDownload(req, up) ==
    IF up.net = "throw" THEN ErrorResponse(500, "Internal server error")
    ELSE IF ~Ok(up.http) THEN ErrorResponse(up.http, "Failed to download model from source")
    ELSE IF ~up.parses THEN ErrorResponse(500, "Internal server error")
    ELSE [NoResponse EXCEPT !.http = 200, !.kind = "bytes", !.model_url = req.param]

CompletePrefetch(req, up) ==
    IF CompleteDownload(req, up).kind = "bytes"
    THEN [NoResponse EXCEPT !.http = 200, !.kind = "json", !.status = "success"]
    ELSE CompleteDownload(req, up)

Validate(route, req) ==
    CASE route = "generate-model" -> ValidateGenerateModel(req)
      [] route = "task-status" -> ValidateTaskStatus(req)
      [] route = "task-status-v1" ->
            IF req.param = 0 THEN ErrorResponse(400, "Task ID is required") ELSE NoResponse
      [] route = "upload-image" -> ValidateUploadImage(req)
      [] OTHER -> ValidateUrl(req)

Complete(route, req, up) ==
    CASE route = "generate-model" -> CompleteGenerateModel(req, up)
      [] route = "task-status" -> CompleteTaskStatus(req, up)
      [] route = "task-status-v1" -> CompleteTaskStatusV1(req, up)
      [] route = "upload-image" -> CompleteUploadImage(req, up)
      [] route = "prefetch-model" -> CompletePrefetch(req, up)
      [] OTHER -> CompleteDownload(req, up)

\* ------------------------------------------------------------------------
\* The ModelGenerator component: submit, poll, cancel
\* ------------------------------------------------------------------------
Min(a, b) == IF a < b THEN a ELSE b

RECURSIVE Pow(_, _)
Pow(b, e) == IF e = 0 THEN 1 ELSE b * Pow(b, e - 1)

\* Math.min(1000 * Math.pow(1.5, attempts), 10000), in the whole
\* milliseconds a timer keeps of it.
PollDelay(a) == Min((1000 * Pow(3, a)) \div Pow(2, a), 10000)

QueuedDelay == 5000

\* prev => prev + 1, followed up to MaxAttempts
Inc(a) == IF a < MaxAttempts THEN a + 1 ELSE a

\* clearTimeout(pollingTimeoutRef.current): the timer the ref holds, if it
\* has not fired yet, will not fire.
ClearTimer(ps, ref) ==
    IF ref # 0 /\ ps[ref].phase = "timer" THEN [ps EXCEPT ![ref].phase = "stopped"] ELSE ps

\* pollTaskStatus() called by the effect: the closure of this render, with
\* its taskId and attempts, sends the first status request.
StartPolling(ps, t, att) ==
    [ps EXCEPT ![t] = [phase |-> "request", attempts |-> att, n |-> 0,
                       branch |-> "none", delay |-> 0]]

\* The effect with dependencies [taskId, isGenerating] after a render that
\* changed one of them: cleanup of the previous run, then the body.
Effect(ps, ref, oldTask, oldGen, newTask, newGen, att) ==
    IF <<oldTask, oldGen>> = <<newTask, newGen>> THEN ps
    ELSE IF newTask # 0 /\ newGen THEN StartPolling(ClearTimer(ps, ref), newTask, att)
    ELSE ClearTimer(ps, ref)

\* The request body handleTextSubmit / handleImageSubmit sends to
\* /api/generate-model; the server has its API key.
ClientGenerateRequest(kind) ==
    IF kind = "text"
    THEN [hasKey |-> TRUE, param |-> 0, format |-> "json", type |-> "text"]
    ELSE [hasKey |-> TRUE, param |-> 1, format |-> "multipart", type |-> "none"]

\* What the provider answers to a new task request.
GenerateUpstream(s, outcome) ==
    IF outcome = "accept"
    THEN [NoUpstream EXCEPT !.net = "ok", !.http = 200, !.parses = TRUE, !.task_id = s]
    ELSE [NoUpstream EXCEPT !.net = "ok", !.http = 503]

\* What the provider answers to a status request for task t.
StatusUpstream(t, net) ==
    IF net = "ok"
    THEN [NoUpstream EXCEPT !.net = "ok", !.http = 200, !.parses = TRUE, !.task_id = t,
                            !.body = upstream[t]]
    ELSE [NoUpstream EXCEPT !.net = "ok", !.http = 503]

\* The first part of handleTextSubmit / handleImageSubmit, up to the await.
\* The button is disabled while isGenerating.
Submit(kind) ==
    /\ ~isGenerating
    /\ \E s \in Tasks :
        /\ submits[s] = "none"
        /\ \A r \in Tasks : r < s => submits[r] # "none"
        /\ submits' = [submits EXCEPT ![s] = kind]
    /\ status' = IF kind = "text" THEN "generating" ELSE "uploading"
    /\ progress' = 0
    /\ errorMessage' = NoError
    /\ genModelUrl' = 0
    /\ attempts' = 0
    /\ taskId' = 0
    /\ isGenerating' = TRUE
    /\ polls' = Effect(ClearTimer(polls, pollingTimeoutRef), 0, taskId, isGenerating,
                       0, TRUE, 0)
    /\ pollingTimeoutRef' = 0
    /\ UNCHANGED upstream
    /\ UNCHANGED <<convVars, routeVars>>

\* The rest of the submit handler: the answer of /api/generate-model.
GenerateResponse(s, outcome) ==
    /\ submits[s] \in {"text", "image"}
    /\ LET req == ClientGenerateRequest(submits[s])
           resp == GenerateModelRoute(req, GenerateUpstream(s, outcome))
           forwarded == ValidateGenerateModel(req) = NoResponse
           newTask == IF Ok(resp.http) THEN resp.taskId ELSE taskId
           newGen == IF Ok(resp.http) THEN isGenerating ELSE FALSE
       IN /\ upstream' = IF forwarded /\ outcome = "accept"
                         THEN [upstream EXCEPT ![s] = [NoTask EXCEPT !.status = "waiting"]]
                         ELSE upstream
          /\ taskId' = newTask
          /\ isGenerating' = newGen
          /\ status' = IF ~Ok(resp.http) THEN "error"
                       ELSE IF submits[s] = "image" THEN "generating" ELSE status
          /\ errorMessage' = IF Ok(resp.http) THEN errorMessage
                             ELSE [kind |-> "start", task |-> 0]
          /\ polls' = Effect(polls, pollingTimeoutRef, taskId, isGenerating,
                             newTask, newGen, attempts)
          /\ pollingTimeoutRef' = IF <<taskId, isGenerating>> = <<newTask, newGen>>
                                  THEN pollingTimeoutRef ELSE 0
    /\ submits' = [submits EXCEPT ![s] = "done"]
    /\ UNCHANGED <<genModelUrl, progress, attempts>>
    /\ UNCHANGED <<convVars, routeVars>>

\* The provider works on a task.
UpstreamStep(t) ==
    /\ upstream[t].status \in {"waiting", "running"}
    /\ \E next \in
           IF upstream[t].status = "waiting"
           THEN {[NoTask EXCEPT !.status = "running", !.progress = 40]}
           ELSE {[NoTask EXCEPT !.status = "success", !.progress = 100, !.output_model = t],
                 [NoTask EXCEPT !.status = "succeeded", !.progress = 100,
                                !.output_model = t],
                 [NoTask EXCEPT !.status = "succeeded", !.progress = 100,
                                !.output_model = t, !.result_model_url = t],
                 [NoTask EXCEPT !.status = "failed", !.error_message = "failed"]} :
           upstream' = [upstream EXCEPT ![t] = next]
    /\ UNCHANGED <<status, genModelUrl, taskId, progress, isGenerating, attempts,
                   errorMessage, pollingTimeoutRef, polls, submits>>
    /\ UNCHANGED <<convVars, routeVars>>

\* The branch of pollTaskStatus a response takes.
PollBranch(net, resp) ==
    IF net = "throw" \/ ~Ok(resp.http) THEN "catch"
    ELSE IF resp.status \in {"completed", "success", "succeeded"} THEN "completed"
    ELSE IF resp.status \in {"error", "failed"} THEN "failed"
    ELSE IF resp.status \in {"processing", "running"} THEN "processing"
    ELSE IF resp.status = "queued" THEN "queued"
    ELSE "unknown"

\* pollTaskStatus after its await: the answer to the status request of the
\* closure that polls task t.  The closure works with the taskId and the
\* attempts of the render it was created in.
PollResponse(t, net) ==
    /\ polls[t].phase = "request"
    /\ LET req == [hasKey |-> TRUE, param |-> t, format |-> "query", type |-> "none"]
           resp == IF net = "throw" THEN NoResponse
                   ELSE TaskStatusRoute(req, StatusUpstream(t, net))
           branch == PollBranch(net, resp)
           delay == IF branch = "processing" THEN PollDelay(polls[t].attempts)
                    ELSE QueuedDelay
       IN IF branch \in {"completed", "failed", "catch"}
          THEN /\ status' = IF branch = "completed" THEN "completed" ELSE "error"
               /\ progress' = IF branch = "completed" THEN 100 ELSE progress
               /\ isGenerating' = FALSE
               /\ genModelUrl' = IF branch = "completed" /\ resp.model_url # 0
                                 THEN resp.model_url ELSE genModelUrl
               /\ errorMessage' =
                      IF branch = "failed" THEN [kind |-> "task", task |-> t]
                      ELSE IF branch = "catch" THEN [kind |-> "poll", task |-> t]
                      ELSE errorMessage
               /\ attempts' = IF branch = "catch" THEN attempts ELSE Inc(attempts)
               /\ polls' = ClearTimer([polls EXCEPT ![t].phase = "stopped",
                                                    ![t].n = Inc(@),
                                                    ![t].branch = branch],
                                      pollingTimeoutRef)
               /\ pollingTimeoutRef' = 0
          ELSE /\ progress' = IF branch = "processing" THEN resp.progress
                              ELSE IF branch = "queued" THEN 0 ELSE progress
               /\ polls' = [polls EXCEPT ![t].phase = "timer", ![t].n = Inc(@),
                                         ![t].branch = branch, ![t].delay = delay]
               /\ pollingTimeoutRef' = t
               /\ attempts' = Inc(attempts)
               /\ UNCHANGED <<status, isGenerating, genModelUrl, errorMessage>>
    /\ UNCHANGED <<taskId, submits, upstream>>
    /\ UNCHANGED <<convVars, routeVars>>

\* A poll timer fires: the closure passes its own guard and sends the next
\* status request.
TimerFire(t) ==
    /\ polls[t].phase = "timer"
    /\ polls' = [polls EXCEPT ![t].phase = "request"]
    /\ UNCHANGED <<status, genModelUrl, taskId, progress, isGenerating, attempts,
                   errorMessage, pollingTimeoutRef, submits, upstream>>
    /\ UNCHANGED <<convVars, routeVars>>

\* handleCancel without its setStatus("idle").
CancelStatusKept ==
    /\ status \notin {"idle", "completed"}
    /\ isGenerating
    /\ isGenerating' = FALSE
    /\ progress' = 0
    /\ attempts' = 0
    /\ taskId' = 0
    /\ errorMessage' = NoError
    /\ polls' = ClearTimer(polls, pollingTimeoutRef)
    /\ pollingTimeoutRef' = 0
    /\ UNCHANGED <<status, genModelUrl, submits, upstream>>
    /\ UNCHANGED <<convVars, routeVars>>

\* handleCancel; the button is shown unless the status is idle or completed.
Cancel ==
    /\ status \notin {"idle", "completed"}
    /\ isGenerating
    /\ isGenerating' = FALSE
    /\ status' = "idle"
    /\ progress' = 0
    /\ attempts' = 0
    /\ taskId' = 0
    /\ errorMessage' = NoError
    /\ polls' = ClearTimer(polls, pollingTimeoutRef)
    /\ pollingTimeoutRef' = 0
    /\ UNCHANGED <<genModelUrl, submits, upstream>>
    /\ UNCHANGED <<convVars, routeVars>>

GenInit ==
    /\ modelUrl = [c \in Conv |-> 0]
    /\ ConvIdle
    /\ GenIdle
    /\ RouteIdle

GenNext ==
    \/ \E kind \in {"text", "image"} : Submit(kind)
    \/ \E s \in Tasks : \E outcome \in {"accept", "reject"} : GenerateResponse(s, outcome)
    \/ \E t \in Tasks : UpstreamStep(t)
    \/ \E t \in Tasks : \E net \in {"ok", "http_error", "throw"} : PollResponse(t, net)
    \/ \E t \in Tasks : TimerFire(t)
    \/ Cancel

\* The component with its user, the routes and the provider.
GenSpec == GenInit /\ [][GenNext]_vars

\* A run without cancel in which the provider accepts every request and
\* every request is answered.
FairNext ==
    \/ \E kind \in {"text", "image"} : Submit(kind)
    \/ \E s \in Tasks : GenerateResponse(s, "accept")
    \/ \E t \in Tasks : UpstreamStep(t)
    \/ \E t \in Tasks : PollResponse(t, "ok")
    \/ \E t \in Tasks : TimerFire(t)

\* Every request in flight is answered and every pending timer fires.
FairSpec ==
    /\ GenInit
    /\ [][FairNext]_vars
    /\ \A s \in Tasks : WF_vars(GenerateResponse(s, "accept"))
    /\ \A t \in Tasks : WF_vars(PollResponse(t, "ok"))
    /\ \A t \in Tasks : WF_vars(TimerFire(t))

\* ------------------------------------------------------------------------
\* One route handler at work
\* ------------------------------------------------------------------------
\* The requests a client can send to a route.
RouteRequests(route) ==
    CASE route = "generate-model" ->
            [hasKey : BOOLEAN, param : {0}, format : {"json", "multipart"},
             type : {"text", "image", "other"}]
      [] route = "task-status" ->
            [hasKey : BOOLEAN, param : {0, 1}, format : {"query"}, type : {"none"}]
      [] route = "upload-image" ->
            [hasKey : {TRUE}, param : {0, 1}, format : {"json", "multipart"},
             type : {"none"}]
      [] OTHER ->
            [hasKey : {TRUE}, param : {0, 1, 2}, format : {"query"}, type : {"none"}]

\* What the provider can report about a task; progress -1 stands for a
\* report without the field.
TaskBodies ==
    {[NoTask EXCEPT !.status = "waiting"],
     [NoTask EXCEPT !.status = "running", !.progress = -1],
     [NoTask EXCEPT !.status = "running", !.progress = 40],
     [NoTask EXCEPT !.status = "success", !.progress = 100, !.output_model = 1],
     [NoTask EXCEPT !.status = "succeeded", !.progress = 100, !.result_model_url = 1],
     [NoTask EXCEPT !.status = "failed"],
     [NoTask EXCEPT !.status = "failed", !.error_message = "failed"],
     [NoTask EXCEPT !.status = "cancelled"]}

\* How the upstream fetch of a route can settle when it is not aborted: a
\* response with a status and a body that parses (is read) or not, or a
\* rejected fetch.
UpstreamOutcomes(route) ==
    LET answers(codes, ids, bodies) ==
            [net : {"ok"}, http : {200, 404, 502}, parses : BOOLEAN, code : codes,
             task_id : ids, body : bodies]
        failures(nets) ==
            [net : nets, http : {0}, parses : {FALSE}, code : {0}, task_id : {0},
             body : {NoTask}]
    IN CASE route = "generate-model" ->
                answers({0, 2000, 2010, 2008, 1}, {0, 1}, {NoTask})
                    \cup failures({"throw"})
         [] route = "task-status" ->
                answers({0}, {1}, TaskBodies) \cup failures({"throw"})
         [] route = "task-status-v1" ->
                answers({0}, {1}, TaskBodies) \cup failures({"throw"})
         [] OTHER -> answers({0}, {1}, {NoTask}) \cup failures({"throw"})

\* modelCache.has(url)
CacheHit(route, req) == route \in CachingRoutes /\ req.param \in modelCache[route]

\* The answer from the cache.
FromCache(route, req) ==
    IF route = "prefetch-model"
    THEN [NoResponse EXCEPT !.http = 200, !.kind = "json", !.status = "success"]
    ELSE [NoResponse EXCEPT !.http = 200, !.kind = "bytes", !.model_url = req.param]

\* The routes that set a timeout on their upstream fetch.
TimedRoutes == {"generate-model", "task-status"}

\* setTimeout(() => controller.abort(), ...) before the fetch
SetTimeout(route) ==
    IF route = "generate-model" THEN [state |-> "armed", ms |-> 15000]
    ELSE IF route = "task-status" THEN [state |-> "armed", ms |-> 30000]
    ELSE NoTimer

\* The clearTimeout left out.
ClearTimeoutForgotten(timer) == timer

\* clearTimeout(timeoutId)
ClearTimeout(timer) ==
    IF timer.state = "armed" THEN [timer EXCEPT !.state = "cleared"] ELSE timer

\* The fetch rejects with the AbortError of controller.abort().
Aborted == [NoUpstream EXCEPT !.net = "abort"]

\* Every fetch that came back OK and was read is put in the cache.
CacheAfterAnyAnswer(cache, route, req, up) ==
    IF route \in CachingRoutes /\ up.net = "ok"
    THEN [cache EXCEPT ![route] = @ \cup {req.param}]
    ELSE cache

\* modelCache.set(url, modelData), reached after an OK response whose body
\* was read.
CacheAfter(cache, route, req, up) ==
    IF route \in CachingRoutes /\ Ok(Complete(route, req, up).http)
    THEN [cache EXCEPT ![route] = @ \cup {req.param}]
    ELSE cache

\* The handler up to its upstream fetch, or up to its answer when it does
\* not fetch.
RouteReceive(route, req) ==
    /\ rPc = "idle"
    /\ rRoute' = route
    /\ rReq' = req
    /\ rUp' = NoUpstream
    /\ IF Validate(route, req) # NoResponse
       THEN /\ rResp' = Validate(route, req) /\ rPc' = "done"
            /\ rFetches' = 0 /\ rTimer' = NoTimer
       ELSE IF CacheHit(route, req)
       THEN /\ rResp' = FromCache(route, req) /\ rPc' = "done"
            /\ rFetches' = 0 /\ rTimer' = NoTimer
       ELSE /\ rResp' = NoResponse /\ rPc' = "fetching"
            /\ rFetches' = 1 /\ rTimer' = SetTimeout(route)
    /\ UNCHANGED modelCache
    /\ UNCHANGED <<convVars, genVars>>

\* The upstream fetch settles before the timeout: with a response, whose
\* body the handler goes on to read, or with a rejection, which the handler
\* answers.  Either way the handler clears its timeout first.
RouteUpstream(up) ==
    /\ rPc = "fetching"
    /\ up.net \in {"ok", "throw"}
    /\ rUp' = up
    /\ rTimer' = ClearTimeout(rTimer)
    /\ IF up.net = "ok"
       THEN rResp' = NoResponse /\ rPc' = "reading"
       ELSE rResp' = Complete(rRoute, rReq, up) /\ rPc' = "done"
    /\ UNCHANGED <<rRoute, rReq, rFetches, modelCache>>
    /\ UNCHANGED <<convVars, genVars>>

\* The timeout fires: controller.abort().  A fetch still pending rejects
\* with the AbortError and the handler answers; a body still being read
\* fails to read.
RouteTimeout ==
    /\ rTimer.state = "armed"
    /\ rPc \in {"fetching", "reading"}
    /\ rTimer' = [rTimer EXCEPT !.state = "fired"]
    /\ IF rPc = "fetching"
       THEN /\ rUp' = Aborted
            /\ rResp' = Complete(rRoute, rReq, Aborted)
            /\ rPc' = "done"
       ELSE /\ rUp' = [rUp EXCEPT !.parses = FALSE]
            /\ UNCHANGED <<rResp, rPc>>
    /\ UNCHANGED <<rRoute, rReq, rFetches, modelCache>>
    /\ UNCHANGED <<convVars, genVars>>

\* The handler from the response of its upstream fetch to its answer: the
\* body is read (or fails to), the cache is filled, the answer is built.
RouteBody ==
    /\ rPc = "reading"
    /\ rResp' = Complete(rRoute, rReq, rUp)
    /\ modelCache' = CacheAfter(modelCache, rRoute, rReq, rUp)
    /\ rPc' = "done"
    /\ UNCHANGED <<rRoute, rReq, rUp, rFetches, rTimer>>
    /\ UNCHANGED <<convVars, genVars>>

\* The answer has been sent; the next request can come.
RouteReturn ==
    /\ rPc = "done"
    /\ rRoute' = "none"
    /\ rReq' = NoRequest
    /\ rPc' = "idle"
    /\ rUp' = NoUpstream
    /\ rResp' = NoResponse
    /\ rFetches' = 0
    /\ rTimer' = NoTimer
    /\ UNCHANGED modelCache
    /\ UNCHANGED <<convVars, genVars>>

RouteNext ==
    \/ \E route \in Routes : \E req \in RouteRequests(route) : RouteReceive(route, req)
    \/ \E up \in UpstreamOutcomes(rRoute) : RouteUpstream(up)
    \/ RouteTimeout
    \/ RouteBody
    \/ RouteReturn

RouteSpec == GenInit /\ [][RouteNext]_vars

\* ------------------------------------------------------------------------
\* Claims about polling, submitting and cancelling
\* ------------------------------------------------------------------------
\* The provider reports task t as finished successfully, with a model URL
\* in the output of its report.
FinishedWithModel(t) ==
    /\ upstream[t].status \in {"success", "succeeded"}
    /\ upstream[t].output_model # 0

\* A closure is polling task t.
Polling(t) == polls[t].phase \in {"request", "timer"}

\* C14: once the provider reports a polled task as finished successfully
\* with an output model URL, the polling of that task eventually stops with
\* the client completed and its modelUrl set to that URL.
C14_PollingCompletes ==
    \A t \in Tasks :
        (FinishedWithModel(t) /\ Polling(t))
            ~> (status = "completed" /\ genModelUrl = upstream[t].output_model
                /\ ~Polling(t))

\* C15: a poll answered "processing" after k earlier polls of the generation
\* schedules the next one min(1000 * 1.5^k, 10000) ms later, so that the
\* delay grows from one "processing" answer to the next until the cap; a
\* poll answered "queued" schedules the next one 5000 ms later.
C15_Backoff ==
    [][\A t \in Tasks :
          (polls[t].phase = "request" /\ polls'[t].phase = "timer") =>
              /\ (polls'[t].branch = "processing" /\ polls[t].n < MaxAttempts)
                     => polls'[t].delay = PollDelay(polls[t].n)
              /\ (polls'[t].branch = "processing" /\ polls[t].branch = "processing"
                      /\ polls[t].delay < 10000)
                     => polls'[t].delay > polls[t].delay
              /\ polls'[t].branch = "queued" => polls'[t].delay = 5000]_vars

\* C16: the request of an image submit is one the generate-model route
\* takes as an image generation, and when the provider accepts requests the
\* handler ends with a taskId and the status "generating".
C16_ImageSubmitStarts ==
    [][\A s \in Tasks :
          (submits[s] = "image" /\ submits'[s] = "done") =>
              /\ ValidateGenerateModel(ClientGenerateRequest("image")) = NoResponse
              /\ ClientGenerateRequest("image").type = "image"
              /\ taskId' # 0
              /\ status' = "generating"]_vars

\* C17: a route whose upstream fetch brought a response that is not OK
\* answers with the status of that response and an error body.
C17_ErrorPassThrough ==
    (rPc = "done" /\ rUp.net = "ok" /\ ~Ok(rUp.http)) =>
        (rResp.http = rUp.http /\ rResp.kind = "error")

\* No closure has a request in flight or a timer pending.
Quiescent == \A t \in Tasks : ~Polling(t)

\* C18: from handleCancel until the next submit the status is idle, taskId
\* null and progress 0, no poll timer is pending, no status request is
\* sent, and the answer to a status request changes nothing in the
\* component.
C18_CancelStops ==
    /\ [](status = "idle" => \A t \in Tasks : polls[t].phase # "timer")
    /\ [][(status = "idle" /\ ~isGenerating' /\ submits' = submits) =>
             /\ status' = "idle" /\ taskId' = 0 /\ progress' = 0
             /\ genModelUrl' = genModelUrl /\ errorMessage' = errorMessage
             /\ \A t \in Tasks :
                    polls'[t].phase = "request" => polls[t].phase = "request"]_vars

\* C19: the answer to a status request for a task that is not the current
\* one changes neither status nor progress, modelUrl or errorMessage of a
\* generation in progress.
C19_CurrentTaskOnly ==
    [][\A t \in Tasks :
          (polls[t].phase = "request" /\ polls'[t].phase # "request"
               /\ isGenerating /\ taskId # t) =>
              /\ status' = status /\ progress' = progress
              /\ genModelUrl' = genModelUrl /\ errorMessage' = errorMessage]_vars

\* C20: the poll that observes a terminal outcome leaves isGenerating false,
\* no timer pending and no status request in flight, and none is sent until
\* the next submit.
C20_TerminalStops ==
    [][/\ \A t \in Tasks :
              (polls[t].phase = "request" /\ polls'[t].phase = "stopped") =>
                  (~isGenerating' /\ Quiescent')
       /\ (Quiescent /\ ~isGenerating /\ ~isGenerating') => Quiescent']_vars

\* C21: whenever the status is "completed" the component has a modelUrl for
\* the viewer and the STL download it shows in that status.
C21_CompletedHasModel == status = "completed" => genModelUrl # 0

\* C22: isGenerating is true exactly when the status is "uploading" or
\* "generating", whatever the order of submits, answers and cancels.
C22_GeneratingStatus == isGenerating <=> status \in {"uploading", "generating"}

\* A generate answer that arrived after the cancel of its submit, and a
\* generation in progress after an earlier one was cancelled.
C22_Witness ==
    \/ (status = "idle" /\ taskId # 0 /\ ~isGenerating)
    \/ (isGenerating /\ status = "generating" /\ \E t \in Tasks : t # taskId /\ Polling(t))

\* ------------------------------------------------------------------------
\* Claims about the route handlers
\* ------------------------------------------------------------------------
\* The task-status handler has answered a report of the provider.
StatusAnswered ==
    /\ rPc = "done" /\ rRoute = "task-status"
    /\ rUp.net = "ok" /\ Ok(rUp.http) /\ rUp.parses

GenerateAnswered == rPc = "done" /\ rRoute = "generate-model" /\ rFetches = 1

\* C24: the generate-model route answers with a taskId only when the
\* upstream response is OK, its body parses, its code is 0 and it carries a
\* task_id; an OK response that does not parse gives 500, and a parsed one
\* gives 429 for code 2000, 403 for 2010, 400 for 2008 and for every other
\* code that is not 0, and 500 for code 0 without task_id.
C24_GenerateModelCodes ==
    GenerateAnswered =>
        /\ (rResp.taskId # 0) =>
               (/\ rUp.net = "ok" /\ Ok(rUp.http) /\ rUp.parses
                /\ rUp.code = 0 /\ rUp.task_id # 0 /\ rResp.taskId = rUp.task_id)
        /\ (rUp.net = "ok" /\ Ok(rUp.http)) =>
               /\ ~rUp.parses => (rResp.http = 500 /\ rResp.kind = "error")
               /\ (rUp.parses /\ rUp.code = 2000) => rResp.http = 429
               /\ (rUp.parses /\ rUp.code = 2010) => rResp.http = 403
               /\ (rUp.parses /\ rUp.code = 2008) => rResp.http = 400
               /\ (rUp.parses /\ rUp.code \notin {0, 2000, 2010, 2008}) => rResp.http = 400
               /\ (rUp.parses /\ rUp.code = 0 /\ rUp.task_id = 0) => rResp.http = 500
               /\ (rUp.parses /\ rUp.code = 0 /\ rUp.task_id # 0) =>
                      (rResp.http = 200 /\ rResp.taskId = rUp.task_id)

\* The provider refused a request for its rate limit although its response
\* carried a task_id.
C24_Witness ==
    /\ GenerateAnswered
    /\ rUp.net = "ok" /\ Ok(rUp.http) /\ rUp.parses
    /\ rUp.code = 2000 /\ rUp.task_id # 0
    /\ rResp.http = 429 /\ rResp.taskId = 0

\* C25: a timeout of 15 s (generate-model) or 30 s (task-status) runs while
\* the upstream fetch is pending; when it fires first the fetch is aborted
\* and the route answers 504; when the fetch settles first the timeout is
\* cleared, so that it neither fires nor changes the response being
\* handled; a fetch that fails otherwise gives 500.
C25_Timeout ==
    /\ [](rRoute \in TimedRoutes =>
             /\ (rPc = "fetching") => (rTimer.state = "armed")
             /\ (rPc # "fetching") => (rTimer.state # "armed")
             /\ (rTimer.state = "armed") =>
                    (rTimer.ms = IF rRoute = "generate-model" THEN 15000 ELSE 30000)
             /\ (rPc = "done" /\ rUp.net = "abort") => (rResp.http = 504)
             /\ (rPc = "done" /\ rUp.net = "throw") => (rResp.http = 500))
    /\ [][/\ (rTimer'.state = "fired" /\ rTimer.state # "fired") =>
                 (rPc = "fetching" /\ rPc' = "done" /\ rResp'.http = 504)
          /\ (rPc = "reading" /\ rRoute \in TimedRoutes) =>
                 (rUp' = rUp /\ rTimer' = rTimer /\ rTimer.state = "cleared")]_vars

\* The timeout fired on a pending fetch.
C25_Witness ==
    /\ rPc = "done" /\ rRoute \in TimedRoutes
    /\ rUp.net = "abort" /\ rTimer.state = "fired" /\ rResp.http = 504

\* C26: a request that fails validation is answered without any upstream
\* fetch: 400 for task-status without taskId, 500 for task-status or
\* generate-model without API key, 400 for generate-model with a type that
\* is neither text nor image, 400 for a download or prefetch route without
\* url.
C26_ValidationNoFetch ==
    (rPc # "idle") =>
        LET rejected(http) == rPc = "done" /\ rResp.http = http /\ rFetches = 0
                              /\ rUp = NoUpstream
        IN /\ (rRoute = "task-status" /\ rReq.param = 0) => rejected(400)
           /\ (rRoute = "task-status" /\ rReq.param # 0 /\ ~rReq.hasKey) => rejected(500)
           /\ (rRoute = "generate-model" /\ ~rReq.hasKey) => rejected(500)
           /\ (rRoute = "generate-model" /\ rReq.hasKey /\ rReq.format = "json"
                   /\ rReq.type \notin {"text", "image"}) => rejected(400)
           /\ (rRoute \in {"download-original", "convert-to-stl", "download-model",
                           "prefetch-model"} /\ rReq.param = 0) => rejected(400)

\* A download without url was turned down.
C26_Witness ==
    /\ rPc = "done" /\ rRoute = "download-model" /\ rReq.param = 0
    /\ rResp.http = 400 /\ rFetches = 0

\* C27: a URL enters a modelCache only from the handler's own request, after
\* an OK upstream response whose body was read; nothing else changes a
\* cache, no entry leaves it, and a request for a cached URL is answered
\* without an upstream fetch.
C27_CacheSound ==
    [][/\ \A r \in CachingRoutes :
              /\ modelCache[r] \subseteq modelCache'[r]
              /\ \A u \in modelCache'[r] \ modelCache[r] :
                     /\ r = rRoute /\ u = rReq.param /\ rPc = "reading"
                     /\ rUp.net = "ok" /\ Ok(rUp.http) /\ rUp.parses
       /\ (rPc = "idle" /\ rRoute' \in CachingRoutes
               /\ rReq'.param \in modelCache[rRoute']) =>
              (rFetches' = 0 /\ rPc' = "done" /\ Ok(rResp'.http))]_vars

\* A request for a cached URL was answered from the cache.
C27_Witness ==
    /\ rPc = "done" /\ rRoute \in CachingRoutes
    /\ rReq.param \in modelCache[rRoute] /\ rFetches = 0 /\ Ok(rResp.http)

====
